---- MODULE Spec2Model ----
(***************************************************************************)
(* Model of package ipapk (src/parser.go): NewAppParser and the functions  *)
(* it calls.                                                               *)
(*                                                                         *)
(* A Go string whose content the program inspects (entry names, the icon   *)
(* file name, the badging report, labels) is a sequence of tokens.  A      *)
(* token is either one of the literals the code searches for               *)
(* ("AndroidManifest.xml", "Payload", "/", "Info.plist", "AppIcon60x60",   *)
(* "launchable-activity", "label='", "'") or a run of other characters     *)
(* ("a", "txt", "HelloWorld", ...).  The empty string is << >>.            *)
(***************************************************************************)
EXTENDS Integers, Sequences, FiniteSets, TLC

VARIABLES
    pc,          \* position inside NewAppParser (or "call_*" for a direct call)
    archive,     \* the file named by `name`: [ext, isZip, files]
    fileOpen,    \* the handle `file` of os.Open (parser.go:92) is open
    opens,       \* number of successful os.Open calls made by NewAppParser
    pkgOpen,     \* the handle held by `pkg` of apk.OpenFile (parser.go:238) is open
    pkgOpens,    \* number of successful apk.OpenFile calls
    reader,      \* reader.File: the entry names, in container order
    xmlFile,     \* index into reader of the manifest slot, 0 = nil
    plistFile,   \* index into reader of the property-list slot, 0 = nil
    iosIconFile, \* index into reader of the icon slot, 0 = nil
    info,        \* the local *appInfo
    err,         \* the local err
    icon,        \* the local icon: "nil" or "image"
    label,       \* the local label
    touched,     \* indices of the entries whose Open() was called
    did,         \* what the call has done so far (history)
    argManifest, \* the manifest content handed to a direct parseApkFile call
    argPlist,    \* the plist content handed to a direct parseIpaFile call
    result       \* how the call ended: [kind, info, err]

vars == <<pc, archive, fileOpen, opens, pkgOpen, pkgOpens, reader, xmlFile,
          plistFile, iosIconFile, info, err, icon, label, touched, did,
          argManifest, argPlist, result>>

(***************************************************************************)
(* Bounds.                                                                 *)
(***************************************************************************)
MaxEntries == 3
MaxActivities == 2
MaxFilters == 2
MaxIconFiles == 2

SeqsUpTo(S, n) == UNION {[1..k -> S] : k \in 0..n}

(***************************************************************************)
(* String functions of the Go library, on token sequences.                 *)
(***************************************************************************)
\* strings.Contains(s, sub); the empty sub is contained in every s.
Contains(s, sub) ==
    \E i \in 0..(Len(s) - Len(sub)) : \A k \in 1..Len(sub) : s[i + k] = sub[k]

\* strings.Split(s, sep) for a one-token separator; never returns << >>.
RECURSIVE Split(_, _)
Split(s, sep) ==
    IF \A i \in 1..Len(s) : s[i] # sep
    THEN <<s>>
    ELSE LET i == CHOOSE n \in 1..Len(s) :
                      s[n] = sep /\ \A k \in 1..(n - 1) : s[k] # sep
         IN  <<SubSeq(s, 1, i - 1)>> \o Split(SubSeq(s, i + 1, Len(s)), sep)

\* strings.Replace(s, old, "", -1) for a one-token old.
RemoveAll(s, old) == SelectSeq(s, LAMBDA t : t # old)

\* reInfoPlist.MatchString(s): the pattern is not anchored, so it matches
\* when some substring of s is Payload/ + one or more non-slash + /Info.plist.
reInfoPlist(s) ==
    \E i \in 1..Len(s), j \in 1..Len(s) :
        /\ i + 2 <= j
        /\ j + 2 <= Len(s)
        /\ s[i] = "Payload"
        /\ s[i + 1] = "/"
        /\ \A k \in (i + 2)..j : s[k] # "/"
        /\ s[j + 1] = "/"
        /\ s[j + 2] = "Info.plist"

androidExt == ".apk"
iosExt == ".ipa"

(***************************************************************************)
(* Inputs.                                                                 *)
(***************************************************************************)
EntryNames ==
    { <<"AndroidManifest.xml">>,
      <<"Payload", "/", "a", "/", "Info.plist">>,
      <<"Payload", "/", "a", "/", "b", "/", "Info.plist">>,
      <<"a", "/", "Payload", "/", "a", "/", "Info.plist">>,
      <<"a", "Info.plist">>,
      <<"Payload", "/", "a", "/", "AppIcon60x60", "a">>,
      <<"a">> }

Exts == {androidExt, iosExt, ".zip", ".docx"}

Archives ==
    [ext : Exts, isZip : {TRUE}, files : SeqsUpTo(EntryNames, MaxEntries)]
    \cup [ext : Exts, isZip : {FALSE}, files : {<< >>}]

\* The filters of one activity: <intent-filter> with its action and category.
Filters ==
    [Action : {"android.intent.action.MAIN", "android.intent.action.VIEW"},
     Category : {"android.intent.category.LAUNCHER",
                 "android.intent.category.DEFAULT"}]

ActivitiesUpTo(f) == [Name : {<<"a">>, <<"b">>}, Filter : SeqsUpTo(Filters, f)]

\* What xmlFile.Open / ReadAll / NewXMLFile / Decode give for the manifest
\* entry: an error, or a decoded androidManifest.
ManifestsUpTo(a, f) ==
    [kind : {"openerr", "malformed"}, Package : {<< >>}, VersionName : {<< >>},
     VersionCode : {<< >>}, SDKVersion : {[Min |-> 0, Target |-> 0]},
     Activities : {<< >>}]
    \cup
    [kind : {"ok"}, Package : {<<"com.example.helloworld">>},
     VersionName : {<<"1.0">>}, VersionCode : {<<"1">>},
     SDKVersion : {[Min |-> 0, Target |-> 0], [Min |-> 21, Target |-> 30]},
     Activities : SeqsUpTo(ActivitiesUpTo(f), a)]

ManifestInputs == ManifestsUpTo(MaxActivities, MaxFilters)

\* The manifests the whole-call specification draws from: its states keep
\* only what parseApkFile returns.
FlowManifests == ManifestsUpTo(1, 1)

\* An element of CFBundleIconFiles: a string or something else (a number).
IconFileElems ==
    { [str |-> TRUE, val |-> <<"AppIcon60x60">>],
      [str |-> TRUE, val |-> <<"a">>],
      [str |-> FALSE, val |-> << >>] }

\* p.CFBundleIcons as decoded into map[string]map[string]interface{}:
\*   "nil"       the key CFBundleIcons is absent (nil map)
\*   "noPrimary" a map without the key CFBundlePrimaryIcon
\*   "primary"   a map with CFBundlePrimaryIcon, whose CFBundleIconFiles is
\*               absent, a value that is no sequence, or a sequence
IconsValues ==
    [kind : {"nil", "noPrimary"}, files : {"none"}, elems : {<< >>}]
    \cup [kind : {"primary"}, files : {"absent", "scalar"}, elems : {<< >>}]
    \cup [kind : {"primary"}, files : {"seq"},
          elems : SeqsUpTo(IconFileElems, MaxIconFiles)]

\* What plistFile.Open / ReadAll / Decode give for the property-list entry.
PlistInputs ==
    [kind : {"openerr", "malformed"}, CFBundleName : {<< >>},
     CFBundleDisplayName : {<< >>}, CFBundleVersion : {<< >>},
     CFBundleShortVersion : {<< >>}, CFBundleIdentifier : {<< >>},
     CFBundleExecutable : {<< >>},
     CFBundleIcons : {[kind |-> "nil", files |-> "none", elems |-> << >>]}]
    \cup
    [kind : {"ok"}, CFBundleName : {<< >>, <<"helloworld">>},
     CFBundleDisplayName : {<< >>, <<"Hello World">>},
     CFBundleVersion : {<<"7">>},
     CFBundleShortVersion : {<<"1.0">>},
     CFBundleIdentifier : {<<"com.kthcorp.helloworld">>},
     CFBundleExecutable : {<<"HelloWorld">>},
     CFBundleIcons : IconsValues]

\* The standard output of `aapt dump badging`; << >> when the tool is
\* absent or prints nothing.
AaptOutputs ==
    { << >>,
      <<"txt">>,
      <<"txt", "launchable-activity", "txt">>,
      <<"txt", "launchable-activity", "txt", "label='", "Hello", "'", "txt">>,
      <<"label='", "Other", "'", "launchable-activity", "txt", "label='",
        "Hello", "'">> }

\* What pkg.Label(nil) gives (its error is dropped at parser.go:250).
PkgLabels == {<< >>, <<"HelloWorld">>}

(***************************************************************************)
(* Records.                                                                *)
(***************************************************************************)
\* new(appInfo): every field at its zero value.
NewInfo ==
    [nil |-> FALSE, Name |-> << >>, PackageName |-> << >>, Version |-> << >>,
     Build |-> << >>, Base64 |-> << >>, VersionName |-> << >>,
     VersionCode |-> << >>, SDKMinVersion |-> 0, SDKTargetVersion |-> 0,
     LanchActivity |-> << >>, Icon |-> "nil", Size |-> "0",
     IconFileName |-> << >>]

\* A nil *appInfo.
NilInfo == [NewInfo EXCEPT !.nil = TRUE]

NoManifest == CHOOSE m \in ManifestsUpTo(0, 0) : m.kind = "openerr"
NoPlist == CHOOSE p \in PlistInputs : p.kind = "openerr"

NoResult == [kind |-> "none", info |-> NilInfo, err |-> "nil"]

(***************************************************************************)
(* The classification pass of NewAppParser (parser.go:111-123).            *)
(***************************************************************************)
NoSlots == [xml |-> 0, plist |-> 0, icon |-> 0]

\* One iteration of the loop: the switch on f.Name, first true case only.
ClassifyEntry(s, name, i) ==
    IF name = <<"AndroidManifest.xml">> THEN [s EXCEPT !.xml = i]
    ELSE IF reInfoPlist(name) THEN [s EXCEPT !.plist = i]
    ELSE IF Contains(name, <<"Info.plist">>) THEN [s EXCEPT !.plist = i]
    ELSE IF Contains(name, <<"AppIcon60x60">>) THEN [s EXCEPT !.icon = i]
    ELSE s

\* for _, f := range reader.File, from entry i on.
RECURSIVE ClassifyFrom(_, _, _)
ClassifyFrom(files, i, s) ==
    IF i > Len(files) THEN s
    ELSE ClassifyFrom(files, i + 1, ClassifyEntry(s, files[i], i))

(***************************************************************************)
(* parseApkFile and parseAndroidManifest (parser.go:179-235).              *)
(***************************************************************************)
IsLauncherFilter(f) ==
    /\ f.Action = "android.intent.action.MAIN"
    /\ f.Category = "android.intent.category.LAUNCHER"

\* The inner loop over activity.Filter, from filter k on: the first
\* matching filter assigns activity.Name and breaks out of this loop.
RECURSIVE FilterScan(_, _, _)
FilterScan(act, k, cur) ==
    IF k > Len(act.Filter) THEN cur
    ELSE IF IsLauncherFilter(act.Filter[k]) THEN act.Name
    ELSE FilterScan(act, k + 1, cur)

\* The outer loop over manifest.Activities, from activity i on; the break
\* of the inner loop does not leave it.
RECURSIVE ActivityScan(_, _, _)
ActivityScan(acts, i, cur) ==
    IF i > Len(acts) THEN cur
    ELSE ActivityScan(acts, i + 1, FilterScan(acts[i], 1, cur))

\* parseAndroidManifest(xmlFile): the error it returns, "nil" for none.
parseAndroidManifest(m) ==
    CASE m.kind = "openerr" -> "entry open"
      [] m.kind = "malformed" -> "malformed binary xml"
      [] OTHER -> "nil"

\* parseApkFile(xmlFile), where m is what the manifest entry holds.
\* opened: xmlFile.Open() was called.
parseApkFile(xml, m) ==
    IF xml = 0
    THEN [kind |-> "returned", info |-> NilInfo,
          err |-> "AndroidManifest.xml is not found", opened |-> FALSE]
    ELSE IF parseAndroidManifest(m) # "nil"
    THEN [kind |-> "returned", info |-> NilInfo,
          err |-> parseAndroidManifest(m), opened |-> TRUE]
    ELSE [kind |-> "returned",
          info |-> [NewInfo EXCEPT
                      !.PackageName = m.Package,
                      !.Version = m.VersionName,
                      !.Build = m.VersionCode,
                      !.SDKMinVersion = m.SDKVersion.Min,
                      !.SDKTargetVersion = m.SDKVersion.Target,
                      !.VersionCode = m.VersionCode,
                      !.VersionName = m.VersionName,
                      !.LanchActivity = ActivityScan(m.Activities, 1, << >>)],
          err |-> "nil", opened |-> TRUE]

(***************************************************************************)
(* parseApkIconAndLabel (parser.go:237-265).                               *)
(***************************************************************************)
\* Lines 253-262: the label taken from the badging report.  data[1] and
\* temp[1] are indexed without a length check that could fail (Split never
\* returns an empty slice), so a report without the separator panics.
AaptLabel(resp, lbl) ==
    IF Len(resp) > 0
    THEN LET data == Split(resp, "launchable-activity") IN
         IF Len(data) > 0
         THEN IF Len(data) < 2 THEN [panic |-> TRUE, label |-> lbl]
              ELSE LET temp == Split(data[2], "label='") IN
                   IF Len(temp) > 0
                   THEN IF Len(temp) < 2 THEN [panic |-> TRUE, label |-> lbl]
                        ELSE LET temp1 == Split(temp[2], "'") IN
                             [panic |-> FALSE,
                              label |-> RemoveAll(temp1[1], "'")]
                   ELSE [panic |-> FALSE, label |-> lbl]
         ELSE [panic |-> FALSE, label |-> lbl]
    ELSE [panic |-> FALSE, label |-> lbl]

\* openOk: apk.OpenFile succeeded; iconOk: pkg.Icon gave an image;
\* lbl: what pkg.Label gave; resp: the output of aapt.
\* opened: apk.OpenFile opened the archive (a second handle on the file).
parseApkIconAndLabel(openOk, iconOk, lbl, resp) ==
    IF ~openOk
    THEN [kind |-> "returned", icon |-> "nil", label |-> << >>,
          err |-> "apk open", opened |-> FALSE]
    ELSE IF ~iconOk
    THEN [kind |-> "returned", icon |-> "nil", label |-> << >>,
          err |-> "Icon is not found", opened |-> TRUE]
    ELSE IF AaptLabel(resp, lbl).panic
    THEN [kind |-> "panicked", icon |-> "nil", label |-> << >>,
          err |-> "nil", opened |-> TRUE]
    ELSE [kind |-> "returned", icon |-> "image",
          label |-> AaptLabel(resp, lbl).label,
          err |-> "nil", opened |-> TRUE]

(***************************************************************************)
(* parseIpaFile (parser.go:267-307).                                       *)
(***************************************************************************)
\* Lines 300-304.  The type assertions .([]interface{}) and .(string) are
\* the one-result form, which panics when the value has another type (or
\* is the nil interface of a missing key).  Every element is assigned in
\* turn, so the last one stays.
IconFileNameOf(icons) ==
    IF icons.kind = "primary"
    THEN IF icons.files # "seq"
         THEN [panic |-> TRUE, name |-> << >>]
         ELSE IF \E k \in 1..Len(icons.elems) : ~icons.elems[k].str
         THEN [panic |-> TRUE, name |-> << >>]
         ELSE IF Len(icons.elems) = 0
         THEN [panic |-> FALSE, name |-> << >>]
         ELSE [panic |-> FALSE, name |-> icons.elems[Len(icons.elems)].val]
    ELSE [panic |-> FALSE, name |-> << >>]

\* parseIpaFile(plistFile), where p is what the plist entry holds.
parseIpaFile(pf, p) ==
    IF pf = 0
    THEN [kind |-> "returned", info |-> NilInfo,
          err |-> "not zip file, info.plist is not found", opened |-> FALSE]
    ELSE IF p.kind = "openerr"
    THEN [kind |-> "returned", info |-> NilInfo, err |-> "entry open",
          opened |-> TRUE]
    ELSE IF p.kind = "malformed"
    THEN [kind |-> "returned", info |-> NilInfo,
          err |-> "malformed property list", opened |-> TRUE]
    ELSE IF IconFileNameOf(p.CFBundleIcons).panic
    THEN [kind |-> "panicked", info |-> NilInfo, err |-> "nil",
          opened |-> TRUE]
    ELSE [kind |-> "returned",
          info |-> [NewInfo EXCEPT
                      !.Name = IF p.CFBundleDisplayName = << >>
                               THEN p.CFBundleName
                               ELSE p.CFBundleDisplayName,
                      !.PackageName = p.CFBundleIdentifier,
                      !.Version = p.CFBundleShortVersion,
                      !.VersionCode = p.CFBundleVersion,
                      !.VersionName = p.CFBundleShortVersion,
                      !.LanchActivity = p.CFBundleExecutable,
                      !.IconFileName = IconFileNameOf(p.CFBundleIcons).name],
          err |-> "nil", opened |-> TRUE]

(***************************************************************************)
(* parseIpaIcon (parser.go:309-324).                                       *)
(***************************************************************************)
IconOutcomes == {"openerr", "decodeerr", "ok"}

\* parseIpaIcon(iconFile), where outcome is what opening and decoding the
\* entry gives.
parseIpaIcon(iconFile, outcome) ==
    IF iconFile = 0
    THEN [icon |-> "nil", err |-> "Icon is not found", opened |-> FALSE]
    ELSE IF outcome = "openerr"
    THEN [icon |-> "nil", err |-> "entry open", opened |-> TRUE]
    ELSE IF outcome = "decodeerr"
    THEN [icon |-> "nil", err |-> "png decode", opened |-> TRUE]
    ELSE [icon |-> "image", err |-> "nil", opened |-> TRUE]

\* The second loop of the iOS path (parser.go:155-161), from entry i on:
\* every entry whose name contains info.IconFileName is assigned in turn.
RECURSIVE IconLoopFrom(_, _, _, _)
IconLoopFrom(files, i, iconFileName, cur) ==
    IF i > Len(files) THEN cur
    ELSE IconLoopFrom(files, i + 1, iconFileName,
                      IF Contains(files[i], iconFileName) THEN i ELSE cur)

(***************************************************************************)
(* NewAppParser (parser.go:91-177), one action per step.                   *)
(***************************************************************************)
\* ext == androidExt (parser.go:127).
IsAndroidExt(ext) == ext = androidExt

\* A dispatch that sends every extension but .apk down the iOS path.
IsIosExt_AnyOther(ext) == ext # androidExt

\* ext == iosExt || ext == ".zip" (parser.go:148).
IsIosExt(ext) == ext = iosExt \/ ext = ".zip"

\* NewAppParser without its defer file.Close(): the handle stays as it is.
FileOpenAfterExit_NoDefer == fileOpen

\* defer file.Close() (parser.go:97) runs on every exit, a panic included:
\* whether the handle is still open once the call is over.
FileOpenAfterExit == FALSE

\* defer pkg.Close() (parser.go:242), likewise.
PkgOpenAfterExit == FALSE

\* return i, e
Return(i, e) ==
    /\ result' = [kind |-> "returned", info |-> i, err |-> e]
    /\ fileOpen' = FileOpenAfterExit
    /\ pc' = "done"

\* A run-time panic unwinds the call.
Panic ==
    /\ result' = [kind |-> "panicked", info |-> NilInfo, err |-> "nil"]
    /\ fileOpen' = FileOpenAfterExit
    /\ pc' = "done"

Init ==
    /\ pc = "start"
    /\ archive \in Archives
    /\ fileOpen = FALSE
    /\ opens = 0
    /\ pkgOpen = FALSE
    /\ pkgOpens = 0
    /\ reader = << >>
    /\ xmlFile = 0
    /\ plistFile = 0
    /\ iosIconFile = 0
    /\ info = NilInfo
    /\ err = "nil"
    /\ icon = "nil"
    /\ label = << >>
    /\ touched = {}
    /\ did = {}
    /\ argManifest = NoManifest
    /\ argPlist = NoPlist
    /\ result = NoResult

\* file, err := os.Open(name) (lines 92-97).
OsOpen ==
    /\ pc = "start"
    /\ \E ok \in BOOLEAN :
          IF ok
          THEN /\ fileOpen' = TRUE
               /\ opens' = opens + 1
               /\ pc' = "opened"
               /\ UNCHANGED <<err, result>>
          ELSE /\ err' = "open"
               /\ result' = [kind |-> "returned", info |-> NilInfo,
                             err |-> "open"]
               /\ pc' = "done"
               /\ UNCHANGED <<fileOpen, opens>>
    /\ UNCHANGED <<archive, pkgOpen, pkgOpens, reader, xmlFile, plistFile,
                   iosIconFile, info, icon, label, touched, did, argManifest,
                   argPlist>>

\* stat, err := file.Stat() (lines 99-103).
FileStat ==
    /\ pc = "opened"
    /\ \E ok \in BOOLEAN :
          IF ok
          THEN /\ pc' = "statted"
               /\ UNCHANGED <<err, result, fileOpen>>
          ELSE /\ err' = "stat"
               /\ Return(NilInfo, "stat")
    /\ UNCHANGED <<archive, opens, pkgOpen, pkgOpens, reader, xmlFile,
                   plistFile, iosIconFile, info, icon, label, touched, did,
                   argManifest, argPlist>>

\* reader, err := zip.NewReader(file, stat.Size()) (lines 105-109): reads
\* the container index.
ZipNewReader ==
    /\ pc = "statted"
    /\ did' = did \cup {"index"}
    /\ IF archive.isZip
       THEN /\ reader' = archive.files
            /\ pc' = "zipread"
            /\ UNCHANGED <<err, result, fileOpen>>
       ELSE /\ err' = "zip: not a valid zip file"
            /\ Return(NilInfo, "zip: not a valid zip file")
            /\ UNCHANGED reader
    /\ UNCHANGED <<archive, opens, pkgOpen, pkgOpens, xmlFile, plistFile,
                   iosIconFile, info, icon, label, touched, argManifest,
                   argPlist>>

\* The classification loop (lines 111-123) and ext (line 125).
Classify ==
    /\ pc = "zipread"
    /\ LET s == ClassifyFrom(reader, 1, NoSlots) IN
          /\ xmlFile' = s.xml
          /\ plistFile' = s.plist
          /\ iosIconFile' = s.icon
    /\ did' = did \cup {"classify"}
    /\ pc' = "classified"
    /\ UNCHANGED <<archive, fileOpen, opens, pkgOpen, pkgOpens, reader, info,
                   err, icon, label, touched, argManifest, argPlist, result>>

\* info, err := parseApkFile(xmlFile) (lines 127-128); its error is not
\* looked at.
AndroidParseApk ==
    /\ pc = "classified"
    /\ IsAndroidExt(archive.ext)
    /\ \E m \in FlowManifests :
          LET r == parseApkFile(xmlFile, m) IN
             /\ info' = r.info
             /\ err' = r.err
             /\ touched' = IF r.opened THEN touched \cup {xmlFile} ELSE touched
             /\ did' = did \cup (IF r.opened THEN {"decode"} ELSE {})
                           \cup (IF r.err # "nil" THEN {"metaFailed"} ELSE {})
    /\ pc' = "iconlabel"
    /\ UNCHANGED <<archive, fileOpen, opens, pkgOpen, pkgOpens, reader,
                   xmlFile, plistFile, iosIconFile, icon, label, argManifest,
                   argPlist, result>>

\* icon, label, err := parseApkIconAndLabel(name) and the recovery of its
\* error (lines 129-135).
AndroidIconAndLabel ==
    /\ pc = "iconlabel"
    /\ \E openOk \in BOOLEAN, iconOk \in BOOLEAN, lbl \in PkgLabels,
          resp \in AaptOutputs :
          LET r == parseApkIconAndLabel(openOk, iconOk, lbl, resp) IN
             /\ pkgOpens' = IF r.opened THEN pkgOpens + 1 ELSE pkgOpens
             /\ pkgOpen' = IF r.opened THEN PkgOpenAfterExit ELSE pkgOpen
             /\ did' = did \cup (IF r.opened THEN {"pkg"} ELSE {})
             /\ IF r.kind = "panicked"
                THEN /\ Panic
                     /\ UNCHANGED <<icon, label, err>>
                ELSE /\ icon' = r.icon
                     /\ label' = r.label
                     /\ err' = "nil"
                     /\ pc' = "assemble"
                     /\ UNCHANGED <<result, fileOpen>>
    /\ UNCHANGED <<archive, opens, reader, xmlFile, plistFile, iosIconFile,
                   info, touched, argManifest, argPlist>>

\* Lines 136-145: info.Name = label dereferences info.
AndroidAssemble ==
    /\ pc = "assemble"
    /\ IF info.nil
       THEN /\ Panic
            /\ UNCHANGED info
       ELSE /\ info' = [info EXCEPT
                          !.Name = label,
                          !.Size = "stat.Size",
                          !.Base64 = IF icon # "nil"
                                     THEN <<"base64(png(icon))">>
                                     ELSE info.Base64]
            /\ Return(info', err)
    /\ UNCHANGED <<archive, opens, pkgOpen, pkgOpens, reader, xmlFile,
                   plistFile, iosIconFile, err, icon, label, touched, did,
                   argManifest, argPlist>>

\* info, err := parseIpaFile(plistFile) and the check of its error
\* (lines 148-154).
IosParseIpa ==
    /\ pc = "classified"
    /\ ~IsAndroidExt(archive.ext)
    /\ IsIosExt(archive.ext)
    /\ \E p \in PlistInputs :
          LET r == parseIpaFile(plistFile, p) IN
             /\ touched' = IF r.opened THEN touched \cup {plistFile}
                           ELSE touched
             /\ did' = did \cup (IF r.opened THEN {"decode"} ELSE {})
                           \cup (IF r.err # "nil" THEN {"metaFailed"} ELSE {})
             /\ IF r.kind = "panicked"
                THEN /\ Panic
                     /\ UNCHANGED <<info, err>>
                ELSE IF r.err # "nil"
                THEN /\ info' = r.info
                     /\ err' = r.err
                     /\ Return(NilInfo, r.err)
                ELSE /\ info' = r.info
                     /\ err' = r.err
                     /\ pc' = "iconloop"
                     /\ UNCHANGED <<result, fileOpen>>
    /\ UNCHANGED <<archive, opens, pkgOpen, pkgOpens, reader, xmlFile,
                   plistFile, iosIconFile, icon, label, argManifest,
                   argPlist>>

\* The loop over reader.File looking for info.IconFileName (lines 155-161).
IosIconLoop ==
    /\ pc = "iconloop"
    /\ iosIconFile' = IconLoopFrom(reader, 1, info.IconFileName, iosIconFile)
    /\ pc' = "ipaicon"
    /\ UNCHANGED <<archive, fileOpen, opens, pkgOpen, pkgOpens, reader,
                   xmlFile, plistFile, info, err, icon, label, touched, did,
                   argManifest, argPlist, result>>

\* icon, err := parseIpaIcon(iosIconFile) and the return (lines 162-173).
IosParseIcon ==
    /\ pc = "ipaicon"
    /\ \E outcome \in IconOutcomes :
          LET r == parseIpaIcon(iosIconFile, outcome) IN
             /\ touched' = IF r.opened THEN touched \cup {iosIconFile}
                           ELSE touched
             /\ err' = r.err
             /\ icon' = r.icon
             /\ info' = IF r.err # "nil" THEN info
                        ELSE [info EXCEPT
                                !.Icon = r.icon,
                                !.Base64 = <<"base64(png(icon))">>,
                                !.Size = "stat.Size"]
             /\ Return(info', "nil")
    /\ UNCHANGED <<archive, opens, pkgOpen, pkgOpens, reader, xmlFile,
                   plistFile, iosIconFile, label, did, argManifest, argPlist>>

\* return nil, errors.New("unknown platform") (line 176).
UnknownPlatform ==
    /\ pc = "classified"
    /\ ~IsAndroidExt(archive.ext)
    /\ ~IsIosExt(archive.ext)
    /\ err' = "unknown platform"
    /\ Return(NilInfo, "unknown platform")
    /\ UNCHANGED <<archive, opens, pkgOpen, pkgOpens, reader, xmlFile,
                   plistFile, iosIconFile, info, icon, label, touched, did,
                   argManifest, argPlist>>

Next ==
    \/ OsOpen
    \/ FileStat
    \/ ZipNewReader
    \/ Classify
    \/ AndroidParseApk
    \/ AndroidIconAndLabel
    \/ AndroidAssemble
    \/ IosParseIpa
    \/ IosIconLoop
    \/ IosParseIcon
    \/ UnknownPlatform

Spec == Init /\ [][Next]_vars

(***************************************************************************)
(* Direct calls of parseApkFile and parseIpaFile on every bounded input,   *)
(* as the package's tests call them (parser_test.go:65-83, 117-135).       *)
(***************************************************************************)
TestArchive(ext, name) == [ext |-> ext, isZip |-> TRUE, files |-> <<name>>]

InitApk ==
    /\ pc = "call_parseApkFile"
    /\ archive = TestArchive(androidExt, <<"AndroidManifest.xml">>)
    /\ reader = archive.files
    /\ xmlFile \in {0, 1}
    /\ argManifest \in ManifestInputs
    /\ fileOpen = FALSE
    /\ opens = 0
    /\ pkgOpen = FALSE
    /\ pkgOpens = 0
    /\ plistFile = 0
    /\ iosIconFile = 0
    /\ info = NilInfo
    /\ err = "nil"
    /\ icon = "nil"
    /\ label = << >>
    /\ touched = {}
    /\ did = {}
    /\ argPlist = NoPlist
    /\ result = NoResult

\* apk, err := parseApkFile(xmlFile)
CallParseApkFile ==
    /\ pc = "call_parseApkFile"
    /\ LET r == parseApkFile(xmlFile, argManifest) IN
          /\ result' = [kind |-> r.kind, info |-> r.info, err |-> r.err]
          /\ touched' = IF r.opened THEN touched \cup {xmlFile} ELSE touched
    /\ pc' = "called"
    /\ UNCHANGED <<archive, fileOpen, opens, pkgOpen, pkgOpens, reader,
                   xmlFile, plistFile, iosIconFile, info, err, icon, label,
                   did, argManifest, argPlist>>

NextApk == CallParseApkFile

SpecApk == InitApk /\ [][NextApk]_vars

InitIpa ==
    /\ pc = "call_parseIpaFile"
    /\ archive = TestArchive(iosExt, <<"Payload", "/", "a", "/", "Info.plist">>)
    /\ reader = archive.files
    /\ plistFile \in {0, 1}
    /\ argPlist \in PlistInputs
    /\ fileOpen = FALSE
    /\ opens = 0
    /\ pkgOpen = FALSE
    /\ pkgOpens = 0
    /\ xmlFile = 0
    /\ iosIconFile = 0
    /\ info = NilInfo
    /\ err = "nil"
    /\ icon = "nil"
    /\ label = << >>
    /\ touched = {}
    /\ did = {}
    /\ argManifest = NoManifest
    /\ result = NoResult

\* ipa, err := parseIpaFile(plistFile)
CallParseIpaFile ==
    /\ pc = "call_parseIpaFile"
    /\ LET r == parseIpaFile(plistFile, argPlist) IN
          /\ result' = [kind |-> r.kind, info |-> r.info, err |-> r.err]
          /\ touched' = IF r.opened THEN touched \cup {plistFile} ELSE touched
    /\ pc' = "called"
    /\ UNCHANGED <<archive, fileOpen, opens, pkgOpen, pkgOpens, reader,
                   xmlFile, plistFile, iosIconFile, info, err, icon, label,
                   did, argManifest, argPlist>>

NextIpa == CallParseIpaFile

SpecIpa == InitIpa /\ [][NextIpa]_vars

(***************************************************************************)
(* Properties.                                                             *)
(***************************************************************************)
\* The extensions the claims name.
KnownExt(ext) == ext \in {".apk", ".ipa", ".zip"}

\* C1: when the mandatory metadata member cannot be obtained (manifest or
\* property list missing, unreadable or undecodable), the failure aborts
\* the call at once: no further step runs, and the call ends by returning
\* an error and a nil record; it never crashes.
C1_MandatoryFailureAborts ==
    "metaFailed" \in did
        => /\ pc = "done"
           /\ result.kind = "returned"
           /\ result.info.nil
           /\ result.err # "nil"

\* C2 as stated: for an extension that is none of .apk, .ipa, .zip, on a
\* file that can be opened and stat'ed, the call fails with "unknown
\* platform", and the container index is not read, no entry is classified
\* or opened and nothing is decoded.
C2_UnknownExtTouchesNothing ==
    (pc = "done" /\ ~KnownExt(archive.ext) /\ result.err \notin {"open", "stat"})
        => /\ result.kind = "returned"
           /\ result.info.nil
           /\ result.err = "unknown platform"
           /\ "index" \notin did
           /\ "classify" \notin did
           /\ "decode" \notin did
           /\ touched = {}

\* C2 amended: for an extension that is none of .apk, .ipa, .zip the call
\* returns a nil record and an error without opening or decoding any entry
\* and without opening the package a second time; the error is "unknown
\* platform" exactly when the file was read as a zip container (its index
\* read and its entries classified by name), and otherwise the open, stat
\* or zip error.
C2_UnknownExtAfterClassification ==
    (pc = "done" /\ ~KnownExt(archive.ext))
        => /\ result.kind = "returned"
           /\ result.info.nil
           /\ touched = {}
           /\ "decode" \notin did
           /\ pkgOpens = 0
           /\ result.err \in {"open", "stat", "zip: not a valid zip file",
                              "unknown platform"}
           /\ (result.err = "unknown platform") <=> ("classify" \in did)
           /\ (result.err = "zip: not a valid zip file")
                 <=> ("index" \in did /\ ~archive.isZip)

\* C2 witness: a .docx zip archive that holds a manifest entry ends with
\* "unknown platform" after the classification filled the manifest slot.
C2_Witness ==
    /\ pc = "done"
    /\ archive.ext = ".docx"
    /\ result.err = "unknown platform"
    /\ xmlFile # 0
    /\ touched = {}

\* The slot the code's rules put an entry name in: "xml", "plist", "icon"
\* or "none".
SlotOf(name) ==
    LET s == ClassifyEntry(NoSlots, name, 1) IN
    CASE s.xml = 1 -> "xml"
      [] s.plist = 1 -> "plist"
      [] s.icon = 1 -> "icon"
      [] OTHER -> "none"

\* The first entry, in container order, that qualifies for the slot; 0 if none.
FirstIndex(files, slot) ==
    IF \E i \in 1..Len(files) : SlotOf(files[i]) = slot
    THEN CHOOSE i \in 1..Len(files) :
            /\ SlotOf(files[i]) = slot
            /\ \A k \in 1..(i - 1) : SlotOf(files[k]) # slot
    ELSE 0

\* C3: after the classification pass each slot holds the first qualifying
\* entry in container order.
C3_FirstQualifyingKept ==
    pc = "classified"
        => /\ xmlFile = FirstIndex(reader, "xml")
           /\ plistFile = FirstIndex(reader, "plist")
           /\ iosIconFile = FirstIndex(reader, "icon")

\* The whole name is Payload/<one path segment>/Info.plist.
IsExactPlistPath(s) ==
    /\ Len(s) >= 5
    /\ s[1] = "Payload"
    /\ s[2] = "/"
    /\ \A k \in 3..(Len(s) - 2) : s[k] # "/"
    /\ s[Len(s) - 1] = "/"
    /\ s[Len(s)] = "Info.plist"

\* C4: the property-list slot only ever holds an entry whose full path is
\* Payload/<one path segment>/Info.plist.
C4_PlistSlotExactPath ==
    (pc = "classified" /\ plistFile # 0) => IsExactPlistPath(reader[plistFile])

\* C5: for a decoded property list the record of parseIpaFile has the name
\* CFBundleDisplayName if non-empty and CFBundleName otherwise, the
\* identifier CFBundleIdentifier, the version CFBundleShortVersionString
\* and the build CFBundleVersion.
C5_IpaFieldMapping ==
    (pc = "called" /\ plistFile # 0 /\ argPlist.kind = "ok"
       /\ result.kind = "returned")
        => /\ ~result.info.nil
           /\ result.info.Name = (IF argPlist.CFBundleDisplayName # << >>
                                  THEN argPlist.CFBundleDisplayName
                                  ELSE argPlist.CFBundleName)
           /\ result.info.PackageName = argPlist.CFBundleIdentifier
           /\ result.info.Version = argPlist.CFBundleShortVersion
           /\ result.info.Build = argPlist.CFBundleVersion

\* C6: on the iOS path, when the property list names no icon file, the
\* entry handed to parseIpaIcon is the icon candidate of the classification
\* pass.
C6_EmptyIconNameKeepsCandidate ==
    (pc = "ipaicon" /\ info.IconFileName = << >>)
        => iosIconFile = ClassifyFrom(reader, 1, NoSlots).icon

\* The name of the first activity, in document order, with a MAIN/LAUNCHER
\* intent filter; << >> if there is none.
FirstLauncher(acts) ==
    LET Matches(a) == \E k \in 1..Len(a.Filter) : IsLauncherFilter(a.Filter[k])
    IN  IF \E i \in 1..Len(acts) : Matches(acts[i])
        THEN acts[CHOOSE i \in 1..Len(acts) :
                     /\ Matches(acts[i])
                     /\ \A k \in 1..(i - 1) : ~Matches(acts[k])].Name
        ELSE << >>

\* C7: for a decoded manifest parseApkFile returns no error and the
\* launcher activity is the first matching activity in document order,
\* empty when none matches.
C7_FirstLauncherWins ==
    (pc = "called" /\ xmlFile # 0 /\ argManifest.kind = "ok")
        => /\ result.kind = "returned"
           /\ result.err = "nil"
           /\ result.info.LanchActivity = FirstLauncher(argManifest.Activities)

\* C8: on the Android path with a decoded manifest, whatever the resource
\* table, the icon, the label and the badging tool give, the call returns
\* the record built from the manifest with a nil error and never crashes.
C8_AndroidBestEffort ==
    (pc = "done" /\ IsAndroidExt(archive.ext) /\ "decode" \in did
       /\ "metaFailed" \notin did)
        => /\ result.kind = "returned"
           /\ result.err = "nil"
           /\ ~result.info.nil
           /\ result.info.PackageName = info.PackageName
           /\ result.info.Version = info.Version
           /\ result.info.Build = info.Build

\* The first string of CFBundleIcons.CFBundlePrimaryIcon.CFBundleIconFiles,
\* << >> when a step of that path is absent or of another shape.
FirstIconFile(icons) ==
    IF /\ icons.kind = "primary"
       /\ icons.files = "seq"
       /\ Len(icons.elems) > 0
       /\ icons.elems[1].str
    THEN icons.elems[1].val
    ELSE << >>

\* C9: for a decoded property list parseIpaFile never crashes on the
\* CFBundleIcons navigation: it returns the record without error, with the
\* first string of the list as icon file name, or none.
C9_IconNavigationSafe ==
    (pc = "called" /\ plistFile # 0 /\ argPlist.kind = "ok")
        => /\ result.kind = "returned"
           /\ result.err = "nil"
           /\ ~result.info.nil
           /\ result.info.IconFileName = FirstIconFile(argPlist.CFBundleIcons)

\* C10 as stated: the archive file is opened at most once in a call, and
\* no handle is open once the call is over.
C10_OpenedOnceAndClosed ==
    /\ opens + pkgOpens <= 1
    /\ pc = "done" => (~fileOpen /\ ~pkgOpen)

\* C10 amended: NewAppParser itself opens the archive at most once; on the
\* Android path parseApkIconAndLabel opens it once more through
\* apk.OpenFile, and nowhere else; every handle is closed once the call is
\* over, whether it returned or panicked.
C10_HandlesClosedOnExit ==
    /\ opens <= 1
    /\ pkgOpens <= 1
    /\ pkgOpens = 1 => (IsAndroidExt(archive.ext) /\ opens = 1)
    /\ fileOpen => (opens = 1 /\ pc # "done")
    /\ pc \notin {"start", "done"} => fileOpen
    /\ pc = "done" => (~fileOpen /\ ~pkgOpen)

\* C10 witness: a call that opened the file, opened the package a second
\* time and then panicked has both handles closed.
C10_Witness ==
    /\ pc = "done"
    /\ result.kind = "panicked"
    /\ opens = 1
    /\ pkgOpens = 1
    /\ ~fileOpen
    /\ ~pkgOpen
====
